---- MODULE Spec2Model ----
(***************************************************************************)
(* Model of the SpatialData.js python tooling:                             *)
(*   - scripts/validate_datasets.py: main's setup phase, the sequential    *)
(*     loop, the multiprocessing Pool.imap loop and validate_with_version  *)
(*   - spatialdata_integrity/checker.py: check_zarr_array,                 *)
(*     check_spatialdata_element and check_spatialdata                     *)
(*   - spatialdata_integrity/cli.py: format_json_result and main           *)
(***************************************************************************)
EXTENDS Integers, Sequences, FiniteSets, TLC

VARIABLES
    pc,            \* position of main: "setup", "run", "done"
    datasets,      \* main's filtered datasets list
    versions,      \* main's versions list
    no_parallel,   \* args.no_parallel
    workers,       \* args.workers
    setup_idx,     \* index of the version whose environment is set up next
    next_task,     \* index of the next task handed to a worker / the loop
    running,       \* indices of the tasks inside validate_with_version
    proc,          \* task index -> what subprocess.run did for the task, or NoResult
    outcome,       \* task index -> ValidationResult returned, or NoResult
    results,       \* main's results list
    waiting,       \* finished tasks whose result main has not collected yet, in arrival order
    exit_status,   \* process exit status, -1 while main runs
    call,          \* the checker call under evaluation (its arguments)
    ret            \* the value the checker call returned, or NoResult

schedVars == <<pc, datasets, versions, no_parallel, workers, setup_idx,
               next_task, running, proc, outcome, results, waiting, exit_status>>
callVars == <<call, ret>>
vars == <<pc, datasets, versions, no_parallel, workers, setup_idx, next_task,
          running, proc, outcome, results, waiting, exit_status, call, ret>>

None == "None"
NoResult == [none |-> TRUE]

(***************************************************************************)
(* Bounds of the model.                                                    *)
(***************************************************************************)
\* at most this many validation tasks (datasets x versions) in one run of main
MaxTasks == 4
\* array dimensions range over 0..MaxDim
MaxDim == 4
\* chunk sizes range over 0..MaxChunk
MaxChunk == 2
\* max_chunks_to_check ranges over None, 0..MaxLimit and the values around 10
MaxLimit == 3
\* the two numbers of a random generator state range over 0..MaxSeed
MaxSeed == 1
MaxLevels == 2
MaxElems == 2

(***************************************************************************)
(* Small helpers.                                                          *)
(***************************************************************************)
Min(a, b) == IF a <= b THEN a ELSE b

Range(s) == {s[i] : i \in 1..Len(s)}

RECURSIVE MaxOfSeq(_)
MaxOfSeq(q) == IF Len(q) = 0 THEN 0 ELSE LET m == MaxOfSeq(Tail(q))
                                         IN IF Head(q) >= m THEN Head(q) ELSE m

(***************************************************************************)
(* validate_datasets.py                                                    *)
(***************************************************************************)
\* DATASETS: the registry of known datasets (name, url), in source order.
DATASETS ==
    << [name |-> "Visium HD", url |-> "visium_hd_3.0.0_io.zarr"],
       [name |-> "Visium", url |-> "visium_associated_xenium_io.zarr"],
       [name |-> "Xenium Rep1", url |-> "xenium_rep1_io.zarr"],
       [name |-> "Xenium Rep2", url |-> "xenium_rep2_io.zarr"],
       [name |-> "CyCIF", url |-> "mcmicro_io.zarr"],
       [name |-> "MERFISH", url |-> "merfish.zarr"],
       [name |-> "MIBI-TOF", url |-> "mibitof.zarr"],
       [name |-> "IMC", url |-> "steinbock_io.zarr"],
       [name |-> "Molecular Cartography", url |-> "mouse_liver.zarr"],
       [name |-> "SpaceM", url |-> "spacem_helanih3t3.zarr"] >>

\* the versions main can test: [args.version] or both
VersionChoices == { <<"0.5.0">>, <<"0.6.1">>, <<"0.5.0", "0.6.1">> }

\* default of --workers: min(4, cpu_count())
DefaultWorkers == 4

\* What subprocess.run did for one task: it returned (kind "completed") with a
\* last stdout line, raised TimeoutExpired, or raised another exception.
\* The last stdout line is classified by what json.loads makes of it:
\*   "invalid" (empty output or not JSON), "scalar" (JSON, not an object),
\*   "object" (a JSON object; a missing key reads as None / False via .get).
Stdout(json, success, etype, emsg, elems, cs) ==
    [json |-> json, success |-> success, error_type |-> etype,
     error_message |-> emsg, elements |-> elems, coordinate_systems |-> cs]

NoStdout == Stdout("invalid", FALSE, None, None, None, None)

ProcOk == [kind |-> "completed",
           out |-> Stdout("object", TRUE, None, None, "elements", "cs")]
ProcLoadFail == [kind |-> "completed",
                 out |-> Stdout("object", FALSE, "ValueError", "load failed", None, None)]
ProcMalformed == [kind |-> "completed", out |-> NoStdout]
ProcScalar == [kind |-> "completed",
               out |-> Stdout("scalar", FALSE, None, None, None, None)]
ProcEmptyObject == [kind |-> "completed",
                    out |-> Stdout("object", FALSE, None, None, None, None)]
ProcTrueWithError == [kind |-> "completed",
                      out |-> Stdout("object", TRUE, "ValueError", "odd", "elements", None)]
ProcTimeout == [kind |-> "timeout", out |-> NoStdout]
ProcTimeoutPartial == [kind |-> "timeout",
                       out |-> Stdout("object", TRUE, None, None, "elements", "cs")]
ProcOSError == [kind |-> "oserror", out |-> NoStdout]

ProcOutcomes == {ProcOk, ProcLoadFail, ProcMalformed, ProcScalar, ProcEmptyObject,
                 ProcTrueWithError, ProcTimeout, ProcTimeoutPartial, ProcOSError}

\* The per-task behaviours the runs of main are drawn from: success, a fault
\* thrown by the probe, malformed output, a timeout.
TaskBehaviours == {ProcOk, ProcLoadFail, ProcMalformed, ProcTimeout}

ValidationResult(dataset, version, success, etype, emsg, elems, cs) ==
    [dataset_name |-> dataset.name, dataset_url |-> dataset.url,
     spatialdata_version |-> version, success |-> success,
     error_type |-> etype, error_message |-> emsg,
     elements |-> elems, coordinate_systems |-> cs]

\* validate_with_version that takes a completed subprocess for a success.
validate_with_version_always_true(dataset, version, p) ==
    IF p.kind = "completed" /\ p.out.json = "object"
    THEN ValidationResult(dataset, version, TRUE, p.out.error_type,
                          p.out.error_message, p.out.elements,
                          p.out.coordinate_systems)
    ELSE ValidationResult(dataset, version, FALSE, "Error", "failed", None, None)

\* validate_with_version reading what a timed-out subprocess had printed
validate_with_version_recovers_partial(dataset, version, p) ==
    IF p.kind = "timeout"
    THEN ValidationResult(dataset, version, FALSE, "TimeoutError",
                          "Dataset loading timed out after 120 seconds",
                          p.out.elements, p.out.coordinate_systems)
    ELSE ValidationResult(dataset, version, p.out.success, p.out.error_type,
                          p.out.error_message, p.out.elements,
                          p.out.coordinate_systems)

\* validate_with_version: the ValidationResult built from what subprocess.run did.
validate_with_version(dataset, version, p) ==
    IF p.kind = "timeout"
    THEN ValidationResult(dataset, version, FALSE, "TimeoutError",
                          "Dataset loading timed out after 120 seconds", None, None)
    ELSE IF p.kind = "oserror"
    THEN ValidationResult(dataset, version, FALSE, "OSError", "uv failed", None, None)
    ELSE IF p.out.json = "invalid"
    THEN ValidationResult(dataset, version, FALSE, "ParseError",
                          "Could not parse output", None, None)
    ELSE IF p.out.json = "scalar"
    \* output.get raises AttributeError, caught by the outer except Exception
    THEN ValidationResult(dataset, version, FALSE, "AttributeError",
                          "object has no attribute 'get'", None, None)
    ELSE ValidationResult(dataset, version, p.out.success, p.out.error_type,
                          p.out.error_message, p.out.elements,
                          p.out.coordinate_systems)

\* validation_tasks: every (dataset, version) pair, datasets outermost.
validation_tasks ==
    [i \in 1..(Len(datasets) * Len(versions)) |->
        [dataset |-> datasets[((i - 1) \div Len(versions)) + 1],
         version |-> versions[((i - 1) % Len(versions)) + 1]]]

total == Len(datasets) * Len(versions)

\* validate_single that labels every outcome with the first dataset
validate_single_first_dataset(task, p) ==
    validate_with_version(DATASETS[1], task.version, p)

\* validate_single: the pool's helper, unpacks the task tuple.
validate_single(task, p) == validate_with_version(task.dataset, task.version, p)

IdleCall == [fn |-> "none"]

Init ==
    /\ pc = "setup"
    /\ \E n \in 1..Len(DATASETS) : datasets = SubSeq(DATASETS, 1, n)
    /\ versions \in VersionChoices
    /\ Len(datasets) * Len(versions) <= MaxTasks
    /\ no_parallel \in BOOLEAN
    /\ workers \in (IF no_parallel THEN {DefaultWorkers} ELSE {1, 2, DefaultWorkers})
    /\ setup_idx = 1
    /\ next_task = 1
    /\ running = {}
    /\ proc = [i \in 1..(Len(datasets) * Len(versions)) |-> NoResult]
    /\ outcome = [i \in 1..(Len(datasets) * Len(versions)) |-> NoResult]
    /\ results = <<>>
    /\ waiting = <<>>
    /\ exit_status = -1
    /\ call = IdleCall
    /\ ret = NoResult

\* SetupEnv that goes on to the validation when uv sync has failed.
SetupEnv_ignores_failure ==
    /\ pc = "setup"
    /\ setup_idx <= Len(versions)
    /\ \E returncode \in {0, 1} :
          IF returncode # 0
          THEN /\ pc' = "run"
               /\ UNCHANGED <<setup_idx, exit_status>>
          ELSE /\ setup_idx' = setup_idx + 1
               /\ pc' = IF setup_idx = Len(versions) THEN "run" ELSE "setup"
               /\ UNCHANGED exit_status
    /\ UNCHANGED <<datasets, versions, no_parallel, workers, next_task, running,
                   proc, outcome, results, waiting, call, ret>>

\* main, lines 401-413: uv sync for the next version; a failure exits with 1.
SetupEnv ==
    /\ pc = "setup"
    /\ setup_idx <= Len(versions)
    /\ \E returncode \in {0, 1} :
          IF returncode # 0
          THEN /\ pc' = "done"
               /\ exit_status' = 1
               /\ UNCHANGED setup_idx
          ELSE /\ setup_idx' = setup_idx + 1
               /\ pc' = IF setup_idx = Len(versions) THEN "run" ELSE "setup"
               /\ UNCHANGED exit_status
    /\ UNCHANGED <<datasets, versions, no_parallel, workers, next_task, running,
                   proc, outcome, results, waiting, call, ret>>

\* SeqStart that does not move on: the loop enters the same task again.
SeqStart_repeats_task ==
    /\ pc = "run"
    /\ no_parallel
    /\ running = {}
    /\ next_task <= total
    /\ running' = {next_task}
    /\ next_task' = IF outcome[next_task] = NoResult THEN next_task ELSE next_task + 1
    /\ UNCHANGED <<pc, datasets, versions, no_parallel, workers, setup_idx,
                   proc, outcome, results, waiting, exit_status, call, ret>>

\* main, lines 438-442: the sequential loop enters validate_with_version.
SeqStart ==
    /\ pc = "run"
    /\ no_parallel
    /\ running = {}
    /\ next_task <= total
    /\ running' = {next_task}
    /\ next_task' = next_task + 1
    /\ UNCHANGED <<pc, datasets, versions, no_parallel, workers, setup_idx,
                   proc, outcome, results, waiting, exit_status, call, ret>>

\* SeqFinish where a task that did not succeed leaves no outcome behind.
SeqFinish_drops_failure ==
    /\ pc = "run"
    /\ no_parallel
    /\ \E t \in running : \E p \in TaskBehaviours :
          LET r == validate_with_version(validation_tasks[t].dataset,
                                         validation_tasks[t].version, p)
          IN /\ proc' = [proc EXCEPT ![t] = p]
             /\ outcome' = [outcome EXCEPT ![t] = r]
             /\ results' = IF r.success THEN Append(results, r) ELSE results
             /\ running' = running \ {t}
    /\ UNCHANGED <<pc, datasets, versions, no_parallel, workers, setup_idx,
                   next_task, waiting, exit_status, call, ret>>

\* main, lines 442-443: validate_with_version returns, the result is appended.
SeqFinish ==
    /\ pc = "run"
    /\ no_parallel
    /\ \E t \in running : \E p \in TaskBehaviours :
          LET r == validate_with_version(validation_tasks[t].dataset,
                                         validation_tasks[t].version, p)
          IN /\ proc' = [proc EXCEPT ![t] = p]
             /\ outcome' = [outcome EXCEPT ![t] = r]
             /\ results' = Append(results, r)
             /\ running' = running \ {t}
    /\ UNCHANGED <<pc, datasets, versions, no_parallel, workers, setup_idx,
                   next_task, waiting, exit_status, call, ret>>

\* PoolStart that starts a queued task whether or not a worker is idle.
PoolStart_unbounded ==
    /\ pc = "run"
    /\ ~no_parallel
    /\ next_task <= total
    /\ running' = running \cup {next_task}
    /\ next_task' = next_task + 1
    /\ UNCHANGED <<pc, datasets, versions, no_parallel, workers, setup_idx,
                   proc, outcome, results, waiting, exit_status, call, ret>>

\* Pool(processes=workers).imap: an idle worker takes the next queued task.
PoolStart ==
    /\ pc = "run"
    /\ ~no_parallel
    /\ Cardinality(running) < workers
    /\ next_task <= total
    /\ running' = running \cup {next_task}
    /\ next_task' = next_task + 1
    /\ UNCHANGED <<pc, datasets, versions, no_parallel, workers, setup_idx,
                   proc, outcome, results, waiting, exit_status, call, ret>>

\* PoolFinish where a timed-out task's worker slot is not given back.
PoolFinish_keeps_slot ==
    /\ pc = "run"
    /\ ~no_parallel
    /\ \E t \in running : \E p \in TaskBehaviours :
          /\ outcome[t] = NoResult
          /\ proc' = [proc EXCEPT ![t] = p]
          /\ outcome' = [outcome EXCEPT ![t] = validate_single(validation_tasks[t], p)]
          /\ waiting' = Append(waiting, t)
          /\ running' = IF p.kind = "timeout" THEN running ELSE running \ {t}
    /\ UNCHANGED <<pc, datasets, versions, no_parallel, workers, setup_idx,
                   next_task, results, exit_status, call, ret>>

\* A worker's validate_single returns; the result waits in the imap iterator.
PoolFinish ==
    /\ pc = "run"
    /\ ~no_parallel
    /\ \E t \in running : \E p \in TaskBehaviours :
          /\ outcome[t] = NoResult
          /\ proc' = [proc EXCEPT ![t] = p]
          /\ outcome' = [outcome EXCEPT ![t] = validate_single(validation_tasks[t], p)]
          /\ waiting' = Append(waiting, t)
          /\ running' = running \ {t}
    /\ UNCHANGED <<pc, datasets, versions, no_parallel, workers, setup_idx,
                   next_task, results, exit_status, call, ret>>

\* imap_next with the iteration reversed (the last submitted task first).
imap_next_reversed == IF Len(results) < total THEN total - Len(results) ELSE total + 1

\* The index of the result the imap iterator yields next: imap yields in
\* submission order, so it is the one after the results already collected.
imap_next == Len(results) + 1

\* main, lines 457-458: the for loop over pool.imap appends the next result.
PoolYield ==
    /\ pc = "run"
    /\ ~no_parallel
    /\ imap_next <= total
    /\ outcome[imap_next] # NoResult
    /\ results' = Append(results, outcome[imap_next])
    /\ waiting' = SelectSeq(waiting, LAMBDA t : t # imap_next)
    /\ UNCHANGED <<pc, datasets, versions, no_parallel, workers, setup_idx,
                   next_task, running, proc, outcome, exit_status, call, ret>>

\* main, lines 465-486: the loop is over, the report is written, main returns.
Report ==
    /\ pc = "run"
    /\ Len(results) = total
    /\ pc' = "done"
    /\ exit_status' = 0
    /\ UNCHANGED <<datasets, versions, no_parallel, workers, setup_idx, next_task,
                   running, proc, outcome, results, waiting, call, ret>>

Next == SetupEnv \/ SeqStart \/ SeqFinish \/ PoolStart \/ PoolFinish \/ PoolYield \/ Report

Spec == Init /\ [][Next]_vars

(***************************************************************************)
(* spatialdata_integrity/checker.py                                        *)
(***************************************************************************)
\* check_zarr_array line 145: sampling starts above this many chunks
SampleBudget == 10
\* check_zarr_array line 154: at most this many interior chunks are sampled
InteriorSample == 8
\* check_zarr_array line 118: extent of the probe read of an unchunked array
ProbeExtent == 10
\* max_chunks_to_check = None (the default, line 91)
NoLimit == -1
\* A path or name is the sequence of its "/"-separated segments; array_path =
\* None (line 92) is the empty one.
NoPath == <<>>

\* Exception messages, as the characters str(e) holds.
MsgBlosc == <<"B", "L", "O", "S", "C", " ", "e", "r", "r">>
MsgDecompression ==
    <<"D", "e", "c", "o", "m", "p", "r", "e", "s", "s", "i", "o", "n">>
MsgOther == <<"i", "o", " ", "e", "r", "r">>
MsgShape == <<"n", "o", " ", "s", "h", "a", "p", "e">>
MsgZeroDivision == <<"d", "i", "v", " ", "b", "y", " ", "0">>
Messages == {MsgBlosc, MsgDecompression, MsgOther}

\* str.lower() on one character
LowerChar(c) ==
    CASE c = "B" -> "b" [] c = "L" -> "l" [] c = "O" -> "o" [] c = "S" -> "s"
      [] c = "C" -> "c" [] c = "D" -> "d" [] OTHER -> c

lower(msg) == [i \in 1..Len(msg) |-> LowerChar(msg[i])]

\* needle in hay, for strings
Contains(hay, needle) ==
    \E i \in 1..(Len(hay) - Len(needle) + 1) :
        SubSeq(hay, i, i + Len(needle) - 1) = needle

blosc == <<"b", "l", "o", "s", "c">>
decompression ==
    <<"d", "e", "c", "o", "m", "p", "r", "e", "s", "s", "i", "o", "n">>

Exc(type, message) == [type |-> type, message |-> message]

ChunkError(chunk_index, error_type, error_message, array_path) ==
    [chunk_index |-> chunk_index, error_type |-> error_type,
     error_message |-> error_message, array_path |-> array_path]

ElementResult(element_type, element_name, is_valid, chunks_checked, errors, warning) ==
    [element_type |-> element_type, element_name |-> element_name,
     is_valid |-> is_valid, chunks_checked |-> chunks_checked,
     errors |-> errors, warning |-> warning]

\* range(n)
range(n) == [i \in 1..n |-> i - 1]

\* list(itertools.product over the lists): lexicographic, last list fastest
RECURSIVE product(_)
product(lists) ==
    IF Len(lists) = 0
    THEN << <<>> >>
    ELSE LET first == Head(lists)
             rest == product(Tail(lists))
         IN [k \in 1..(Len(first) * Len(rest)) |->
                <<first[((k - 1) \div Len(rest)) + 1]>>
                    \o rest[((k - 1) % Len(rest)) + 1]]

\* num_chunks rounding down
num_chunks_floor(dim_size, chunk_size) == dim_size \div chunk_size

\* lines 137: the number of chunks along one dimension
num_chunks(dim_size, chunk_size) == (dim_size + chunk_size - 1) \div chunk_size

\* lines 135-138: chunk_indices, one list of indices per dimension
chunk_indices(shape, chunks) ==
    [d \in 1..Min(Len(shape), Len(chunks)) |-> range(num_chunks(shape[d], chunks[d]))]

\* line 143: all_chunk_coords
all_chunk_coords(shape, chunks) == product(chunk_indices(shape, chunks))

\* random's randbelow(m), the i-th draw of the generator state `seed`
randbelow(seed, i, m) == (seed[1] + i * seed[2]) % m

\* random.sample(population, k): k draws without replacement from a pool
RECURSIVE sample_loop(_, _, _, _, _)
sample_loop(pool, n, k, i, seed) ==
    IF i = k
    THEN <<>>
    ELSE LET j == randbelow(seed, i, n - i)
         IN <<pool[j + 1]>>
                \o sample_loop([pool EXCEPT ![j + 1] = pool[n - i]], n, k, i + 1, seed)

random_sample(population, k, seed) ==
    sample_loop(population, Len(population), k, 0, seed)

\* sampled_chunks drawing the random sample from all the coordinates
sampled_chunks_from_all(coords, sample_chunks, seed) ==
    IF sample_chunks /\ Len(coords) > SampleBudget
    THEN <<coords[1], coords[Len(coords)]>>
             \o random_sample(coords, Min(InteriorSample, Len(coords) - 2), seed)
    ELSE coords

\* sampled_chunks sampling as soon as there are more than two chunks
sampled_chunks_low_threshold(coords, sample_chunks, seed) ==
    IF sample_chunks /\ Len(coords) > 2
    THEN <<coords[1], coords[Len(coords)]>>
             \o random_sample(SubSeq(coords, 2, Len(coords) - 1),
                              Min(InteriorSample, Len(coords) - 2), seed)
    ELSE coords

\* lines 145-159: the chunks selected before max_chunks_to_check applies
sampled_chunks(coords, sample_chunks, seed) ==
    IF sample_chunks /\ Len(coords) > SampleBudget
    THEN LET samples == <<coords[1], coords[Len(coords)]>>
         IN IF Len(coords) > 2
            THEN samples \o random_sample(SubSeq(coords, 2, Len(coords) - 1),
                                          Min(InteriorSample, Len(coords) - 2), seed)
            ELSE samples
    ELSE coords

\* truncated that leaves the selection as it is, whatever the limit
truncated_ignores_limit(selected, max_chunks_to_check) == selected

\* lines 161-163: chunks_to_check[:max_chunks_to_check]
truncated(selected, max_chunks_to_check) ==
    IF max_chunks_to_check # NoLimit
    THEN SubSeq(selected, 1, Min(max_chunks_to_check, Len(selected)))
    ELSE selected

chunks_to_check(coords, sample_chunks, max_chunks_to_check, seed) ==
    truncated(sampled_chunks(coords, sample_chunks, seed), max_chunks_to_check)

\* chunk_slices whose end is start + chunk_size, not cut at the array's edge
chunk_slices_unclamped(chunk_coords, shape, chunks) ==
    [d \in 1..Min(Len(chunk_coords), Min(Len(shape), Len(chunks))) |->
        [start |-> chunk_coords[d] * chunks[d],
         end |-> chunk_coords[d] * chunks[d] + chunks[d]]]

\* lines 169-173: the slice of one chunk, [start, end) per dimension
chunk_slices(chunk_coords, shape, chunks) ==
    [d \in 1..Min(Len(chunk_coords), Min(Len(shape), Len(chunks))) |->
        LET start == chunk_coords[d] * chunks[d]
        IN [start |-> start, end |-> Min(start + chunks[d], shape[d])]]

\* probe_slices that slices the first two dimensions only
probe_slices_first_two(shape) ==
    [d \in 1..Min(2, Len(shape)) |-> [start |-> 0, end |-> Min(ProbeExtent, shape[d])]]

\* lines 118-119: the probe slices of an unchunked array, one per dimension
probe_slices(shape) ==
    [d \in 1..Len(shape) |-> [start |-> 0, end |-> Min(ProbeExtent, shape[d])]]

RECURSIVE SumSeq(_)
SumSeq(q) == IF Len(q) = 0 THEN 0 ELSE Head(q) + SumSeq(Tail(q))

\* Whether the store fails the read of the chunk at `coord` (array[...] raises).
\* An array is [meta, shape, chunked, chunks, fail, msg]: `fail` names the
\* chunks the store cannot read.
ReadFails(array, coord) ==
    CASE array.fail = "none" -> FALSE
      [] array.fail = "all" -> TRUE
      [] array.fail = "first" -> \A d \in 1..Len(coord) : coord[d] = 0
      [] array.fail = "last" ->
            \A d \in 1..Len(coord) :
                coord[d] = (IF array.chunked
                            THEN num_chunks(array.shape[d], array.chunks[d]) - 1
                            ELSE 0)
      [] array.fail = "odd" -> SumSeq(coord) % 2 = 1

\* lines 179-184: the error type recorded for a failed chunk read
classify(e) ==
    IF Contains(lower(e.message), blosc) \/ Contains(lower(e.message), decompression)
    THEN "BloscDecompressionError"
    ELSE e.type

\* check_chunks where the first failed read ends the loop
check_chunks_stops_at_failure(array, selected, todo, array_path) ==
    LET bad == {i \in 1..Len(todo) : ReadFails(array, todo[i])}
        n == IF bad = {} THEN Len(todo) ELSE CHOOSE i \in bad : \A k \in bad : i <= k
        e == Exc("RuntimeError", array.msg)
    IN [errors |-> IF bad = {} THEN <<>>
                   ELSE <<ChunkError(todo[n], classify(e), e.message, array_path)>>,
        chunks_checked |-> n,
        all_chunk_coords |-> all_chunk_coords(array.shape, array.chunks),
        selected |-> selected,
        chunks_to_check |-> todo,
        reads |-> [i \in 1..n |->
                      [path |-> array_path, coord |-> todo[i],
                       slices |-> chunk_slices(todo[i], array.shape, array.chunks)]]]

\* lines 166-194: the loop over chunks_to_check (todo; selected is what the
\* sampling of lines 145-159 gave); [errors, chunks_checked, reads, ...].
\* Every iteration reads one chunk and adds one to chunks_checked, on the
\* success branch (line 177) or on the except branch (line 194), where it also
\* appends a ChunkError.
check_chunks(array, selected, todo, array_path) ==
    LET failed == SelectSeq(todo, LAMBDA c : ReadFails(array, c))
        passed == SelectSeq(todo, LAMBDA c : ~ReadFails(array, c))
        e == Exc("RuntimeError", array.msg)
    IN [errors |-> [i \in 1..Len(failed) |->
                       ChunkError(failed[i], classify(e), e.message, array_path)],
        chunks_checked |-> Len(passed) + Len(failed),
        all_chunk_coords |-> all_chunk_coords(array.shape, array.chunks),
        selected |-> selected,
        chunks_to_check |-> todo,
        reads |-> [i \in 1..Len(todo) |->
                      [path |-> array_path, coord |-> todo[i],
                       slices |-> chunk_slices(todo[i], array.shape, array.chunks)]]]

\* lines 106-207: the body of check_zarr_array: its errors and chunks_checked,
\* the reads it attempted and its locals all_chunk_coords and chunks_to_check
zarr_scan(array, sample_chunks, max_chunks_to_check, array_path, seed) ==
    IF array.meta # "ok"
    THEN \* array.shape or array.chunks raises: the outer except, lines 196-207
         [errors |-> <<ChunkError(<<>>, "AttributeError", MsgShape, array_path)>>,
          chunks_checked |-> 0, reads |-> <<>>,
          all_chunk_coords |-> <<>>, selected |-> <<>>,
          chunks_to_check |-> <<>>]
    ELSE IF ~array.chunked
    THEN \* lines 114-132: one probe read, no reclassification of the error
         LET coord == [d \in 1..Len(array.shape) |-> 0]
             read == [path |-> array_path, coord |-> coord,
                      slices |-> probe_slices(array.shape)]
         IN IF ReadFails(array, coord)
            THEN [errors |-> <<ChunkError(coord, "RuntimeError", array.msg, array_path)>>,
                  chunks_checked |-> 1, reads |-> <<read>>,
                  all_chunk_coords |-> <<>>, selected |-> <<>>,
                  chunks_to_check |-> <<>>]
            ELSE [errors |-> <<>>, chunks_checked |-> 1, reads |-> <<read>>,
                  all_chunk_coords |-> <<>>, selected |-> <<>>,
                  chunks_to_check |-> <<>>]
    ELSE IF \E d \in 1..Len(array.chunks) : array.chunks[d] = 0
    THEN \* line 137 raises ZeroDivisionError: the outer except
         [errors |-> <<ChunkError(<<>>, "ZeroDivisionError", MsgZeroDivision, array_path)>>,
          chunks_checked |-> 0, reads |-> <<>>,
          all_chunk_coords |-> <<>>, selected |-> <<>>,
          chunks_to_check |-> <<>>]
    ELSE check_chunks(array,
                      sampled_chunks(all_chunk_coords(array.shape, array.chunks),
                                     sample_chunks, seed),
                      chunks_to_check(all_chunk_coords(array.shape, array.chunks),
                                      sample_chunks, max_chunks_to_check, seed),
                      array_path)

\* lines 209-215: the ElementResult check_zarr_array returns
zarr_result(scan, array_path) ==
    ElementResult("array", IF array_path # NoPath THEN array_path ELSE <<"unknown">>,
                  Len(scan.errors) = 0, scan.chunks_checked, scan.errors, None)

check_zarr_array(array, sample_chunks, max_chunks_to_check, array_path, seed) ==
    zarr_result(zarr_scan(array, sample_chunks, max_chunks_to_check, array_path, seed),
                array_path)

\* f"scale_{i}", line 274
ScaleNames == <<"scale_0", "scale_1", "scale_2", "scale_3", "scale_4", "scale_5">>
scale_name_of(level, i) == IF level.named THEN level.name ELSE ScaleNames[i + 1]

\* lines 327-340: the error of a failed fallback read of one scale level
level_error(e, scale_name, element_name) ==
    ChunkError(<<scale_name>>, classify(e), e.message, element_name \o <<scale_name>>)

\* lines 362-375: the error of a failed fallback read of a single array; only
\* "blosc" is looked for in the message
single_error(e, element_name) ==
    ChunkError(<<>>,
               IF Contains(lower(e.message), blosc)
               THEN "BloscDecompressionError" ELSE e.type,
               e.message, element_name)

\* lines 392-403, 411-422, 431-442: the error of a failed probe of a points,
\* shapes or tables element, and lines 444-454: the outer except
plain_error(e, element_name) == ChunkError(<<>>, e.type, e.message, element_name)

\* lines 294-295 and 344-345: chunks_checked += result.chunks_checked and
\* errors.extend(result.errors) for the result of check_zarr_array
extended(acc, result, path) ==
    [errors |-> acc.errors \o result.errors,
     chunks_checked |-> acc.chunks_checked + result.chunks_checked,
     probes |-> Append(acc.probes,
                       [path |-> path, checked |-> result.chunks_checked]),
     raised |-> <<>>]

\* the locals of check_spatialdata_element before anything is checked
NothingChecked == [errors |-> <<>>, chunks_checked |-> 0, probes |-> <<>>, raised |-> <<>>]

\* the scan with the warning it ended with
warned(r, warning) ==
    [errors |-> r.errors, chunks_checked |-> r.chunks_checked,
     warning |-> warning, probes |-> r.probes, raised |-> r.raised]

\* lines 270-340: the loop over scale_levels, from level i on. A level is
\*   "zarr":   scale_data.store.array is a zarr array, checked by check_zarr_array
\*   "lazy":   no zarr array behind it, one small read (and compute) is tried
\*   "broken": looking at scale_data raises outside the inner try blocks
\* acc is [errors, chunks_checked, probes, raised]; probes lists the arrays
\* probed, each with its path and what it added to chunks_checked; raised
\* holds the exception that left the loop, for the outer except.
RECURSIVE scan_levels(_, _, _, _, _)
scan_levels(levels, i, element_name, seed, acc) ==
    IF i > Len(levels)
    THEN acc
    ELSE LET level == levels[i]
             scale_name == scale_name_of(level, i - 1)
             path == element_name \o <<scale_name>>
         IN IF level.kind = "broken"
            THEN [acc EXCEPT !.raised = <<Exc("RuntimeError", level.msg)>>]
            ELSE IF level.kind = "zarr"
            THEN scan_levels(levels, i + 1, element_name, seed,
                             extended(acc,
                                      check_zarr_array(level.array, TRUE, NoLimit,
                                                       path, seed),
                                      path))
            ELSE scan_levels(levels, i + 1, element_name, seed,
                             [errors |-> IF level.fails
                                         THEN Append(acc.errors,
                                                     level_error(Exc("RuntimeError", level.msg),
                                                                 scale_name, element_name))
                                         ELSE acc.errors,
                              chunks_checked |-> acc.chunks_checked + 1,
                              probes |-> Append(acc.probes,
                                                [path |-> path, checked |-> 1]),
                              raised |-> <<>>])

\* lines 248-266: scale_levels as the first accessor found lists them; None
\* (here the empty list, falsy alike) when there is none or it raises
scale_levels(data) ==
    IF data.access = "none" \/ data.listing = "raises" THEN <<>> ELSE data.levels

\* lines 241-377: an images or labels element; [errors, chunks_checked,
\* warning, probes, raised]
scan_raster(element, element_name, seed) ==
    IF element.data_attr = "raises"
    THEN [errors |-> <<>>, chunks_checked |-> 0, warning |-> None, probes |-> <<>>,
          raised |-> <<Exc("RuntimeError", element.msg)>>]
    ELSE IF element.data_attr = "absent"
    THEN [errors |-> <<>>, chunks_checked |-> 0,
          warning |-> "Element has no 'data' attribute", probes |-> <<>>,
          raised |-> <<>>]
    ELSE LET data == element.data
         IN IF Len(scale_levels(data)) > 0
            THEN warned(scan_levels(scale_levels(data), 1, element_name, seed,
                                    NothingChecked),
                        None)
            ELSE IF data.kind = "zarr"
            THEN warned(extended(NothingChecked,
                                 check_zarr_array(data.array, TRUE, NoLimit,
                                                  element_name, seed),
                                 element_name),
                        None)
            ELSE IF data.kind = "lazy"
            THEN [errors |-> IF data.fails
                             THEN <<single_error(Exc("RuntimeError", data.msg),
                                                 element_name)>>
                             ELSE <<>>,
                  chunks_checked |-> 1, warning |-> None,
                  probes |-> <<[path |-> element_name, checked |-> 1]>>, raised |-> <<>>]
            ELSE [errors |-> <<>>, chunks_checked |-> 0,
                  warning |-> "Could not determine array structure - no shape attribute",
                  probes |-> <<>>, raised |-> <<>>]

\* scan_probe recording an error whether or not the probe fails
scan_probe_always_error(element, element_name) ==
    [errors |-> <<plain_error(Exc("RuntimeError", element.msg), element_name)>>,
     chunks_checked |-> 1, warning |-> None, probes |-> <<[path |-> element_name, checked |-> 1]>>,
     raised |-> <<>>]

\* lines 379-442: a points, shapes or tables element: one probe
scan_probe(element, element_name) ==
    [errors |-> IF element.probe_fails
                THEN <<plain_error(Exc("RuntimeError", element.msg), element_name)>>
                ELSE <<>>,
     chunks_checked |-> 1, warning |-> None, probes |-> <<[path |-> element_name, checked |-> 1]>>,
     raised |-> <<>>]

\* lines 236-454: the body of check_spatialdata_element, the outer except
\* included: an exception that left the try block becomes one more error
outer_except(r, element_name) ==
    IF Len(r.raised) > 0
    THEN [r EXCEPT !.errors = Append(r.errors, plain_error(r.raised[1], element_name))]
    ELSE r

element_scan(element, element_type, element_name, seed) ==
    outer_except(IF element_type \in {"images", "labels"}
                 THEN scan_raster(element, element_name, seed)
                 ELSE IF element_type \in {"points", "shapes", "tables"}
                 THEN scan_probe(element, element_name)
                 ELSE warned(NothingChecked, None),
                 element_name)

\* lines 456-463: the ElementResult check_spatialdata_element returns
element_result(r, element_type, element_name) ==
    ElementResult(element_type, element_name, Len(r.errors) = 0,
                  r.chunks_checked, r.errors, r.warning)

check_spatialdata_element(element, element_type, element_name, seed) ==
    element_result(element_scan(element, element_type, element_name, seed),
                   element_type, element_name)

\* IntegrityResult, lines 56-85
IntegrityResult(path, is_valid, elements, errors) ==
    [path |-> path, is_valid |-> is_valid, elements |-> elements, errors |-> errors]

\* line 498
ElementTypes == <<"images", "labels", "points", "shapes", "tables">>

\* the names elements.items() gives the elements of one type, by position
ElemNames == <<"a", "b", "c", "d", "e">>

\* lines 489-493: the result of a failed load
load_failure(path, e) ==
    IntegrityResult(path, FALSE, <<>>, <<<<"Failed to load SpatialData object", e.type, e.message>>>>)

\* check_items going through the items from the last to the first
RECURSIVE check_items_reversed(_, _, _, _)
check_items_reversed(elems, element_type, k, seed) ==
    IF k > Len(elems)
    THEN <<>>
    ELSE check_items_reversed(elems, element_type, k + 1, seed)
             \o <<check_spatialdata_element(elems[k], element_type, <<ElemNames[k]>>, seed)>>

\* lines 512-531: the results one element type adds. What getattr(sdata,
\* element_type) gave is
\*   "dict":   a dict, each item checked under its own name
\*   "single": anything else but None, checked under the name of the type
RECURSIVE check_items(_, _, _, _)
check_items(elems, element_type, k, seed) ==
    IF k > Len(elems)
    THEN <<>>
    ELSE <<check_spatialdata_element(elems[k], element_type, <<ElemNames[k]>>, seed)>>
             \o check_items(elems, element_type, k + 1, seed)

\* lines 504-531: the loop over element_types from the i-th on; acc is
\* [results, all_errors, raised]. Lines 505-514 are outside the try block of
\* lines 515-525: an exception of hasattr, getattr or of the iteration of
\* elements.items() leaves check_spatialdata.
\* lines 514-531: results.append for what one element type gave; raises
\* when the iteration of elements.items() does, after the items it yielded
appended(acc, more, items_raises) ==
    [results |-> acc.results \o more,
     all_errors |-> acc.all_errors,
     raised |-> IF items_raises THEN <<Exc("RuntimeError", MsgOther)>> ELSE <<>>]

RECURSIVE check_types(_, _, _, _, _)
check_types(attrs, element_types, i, seed, acc) ==
    IF i > Len(element_types) \/ Len(acc.raised) > 0
    THEN acc
    ELSE LET element_type == element_types[i]
             elements == IF element_type \in DOMAIN attrs
                         THEN attrs[element_type]
                         ELSE [attr |-> "absent", elems |-> <<>>, items_raises |-> FALSE]
         IN IF elements.attr \in {"absent", "none"}
            THEN check_types(attrs, element_types, i + 1, seed, acc)
            ELSE IF elements.attr = "raises"
            THEN [acc EXCEPT !.raised = <<Exc("RuntimeError", MsgOther)>>]
            ELSE check_types(attrs, element_types, i + 1, seed,
                             appended(acc,
                                      IF elements.attr = "dict"
                                      THEN check_items(elements.elems, element_type, 1, seed)
                                      ELSE <<check_spatialdata_element(elements.elems[1],
                                                                       element_type,
                                                                       <<element_type>>,
                                                                       seed)>>,
                                      elements.items_raises))

\* mutant of integrity_is_valid: the verdict looks at the structural errors only
integrity_is_valid_errors_only(element_results, all_errors) == Len(all_errors) = 0

\* line 533
integrity_is_valid(element_results, all_errors) ==
    Len(all_errors) = 0 /\ \A k \in 1..Len(element_results) : element_results[k].is_valid

\* lines 533-540
integrity_result(path, r) ==
    [raised |-> r.raised,
     value |-> IntegrityResult(path, integrity_is_valid(r.results, r.all_errors),
                               r.results, r.all_errors)]

\* check_spatialdata going on to scan the elements after a failed load
check_spatialdata_scans_after_failed_load(sdata, element_types, seed) ==
    integrity_result(IF sdata.given = "path" THEN <<"store.zarr">> ELSE NoPath,
                     check_types(sdata.attrs,
                                 IF element_types = <<>>
                                 THEN ElementTypes ELSE element_types[1],
                                 1, seed,
                                 [results |-> <<>>,
                                  all_errors |-> IF sdata.given = "path" /\ sdata.load = "fails"
                                                 THEN <<<<"Failed to load SpatialData object",
                                                          "OSError", MsgOther>>>>
                                                 ELSE <<>>,
                                  raised |-> <<>>]))

\* lines 484-540: [raised, value]: the IntegrityResult returned, or the
\* exception that left the function (value then holds what had been gathered).
\* element_types is <<>> for None and <<list>> for a list.
check_spatialdata(sdata, element_types, seed) ==
    LET path == IF sdata.given = "path" THEN <<"store.zarr">> ELSE NoPath
    IN IF sdata.given = "path" /\ sdata.load = "fails"
       THEN [raised |-> <<>>, value |-> load_failure(path, Exc("OSError", MsgOther))]
       ELSE integrity_result(path,
                             check_types(sdata.attrs,
                                         IF element_types = <<>>
                                         THEN ElementTypes ELSE element_types[1],
                                         1, seed,
                                         [results |-> <<>>, all_errors |-> <<>>,
                                          raised |-> <<>>]))

(***************************************************************************)
(* spatialdata_integrity/cli.py                                            *)
(***************************************************************************)

\* JSON values: null, and a string of the given segments
JsonNull == [json |-> "null"]
JsonString(str) == [json |-> "string", value |-> str]

\* json.dumps of an Optional[str]
json_optional(str) == IF str = NoPath THEN JsonNull ELSE JsonString(str)

MsgNameError == <<"n", "a", "m", "e", " ", "'", "e", "l", "e", "m", "e", "n", "t", "'">>

\* format_json_result, lines 14-40: [raised, record]. The inner comprehension
\* of lines 25-33 iterates element.errors, and `element` is a name neither
\* of the function nor of the module (the loop variable of line 36 is `e`):
\* building the entry of the first element raises NameError. With no
\* element the record has the path, is_valid, no elements and the errors.
format_json_result(result) ==
    IF Len(result.elements) > 0
    THEN [raised |-> <<Exc("NameError", MsgNameError)>>,
          record |-> JsonNull]
    ELSE [raised |-> <<>>,
          record |-> [path |-> json_optional(result.path),
                      is_valid |-> IF result.is_valid THEN "true" ELSE "false",
                      elements |-> <<>>,
                      errors |-> result.errors]]

\* IntegrityResult.__str__, checker.py lines 64-85: the header, one line per
\* element, the structural errors and the summary count
integrity_str(result) ==
    [header |-> result.path,
     elements |-> [k \in 1..Len(result.elements) |-> result.elements[k].element_name],
     errors |-> result.errors,
     error_count |-> Cardinality({k \in 1..Len(result.elements) :
                                     ~result.elements[k].is_valid}),
     element_count |-> Len(result.elements)]

NoOutput == [kind |-> "none"]

\* cli main, lines 123-140, once check_spatialdata has returned `result`
cli_report(result, format) ==
    IF format = "json" /\ Len(format_json_result(result).raised) > 0
    THEN \* the exception leaves main: traceback, exit status 1
         [exit_code |-> 1, output |-> NoOutput, result |-> <<result>>,
          uncaught |-> format_json_result(result).raised]
    ELSE [exit_code |-> IF ~result.is_valid THEN 1 ELSE 0,
          output |-> IF format = "json"
                     THEN [kind |-> "json", record |-> format_json_result(result).record]
                     ELSE [kind |-> "text", text |-> integrity_str(result)],
          result |-> <<result>>,
          uncaught |-> <<>>]

\* cli main, lines 100-121, with what check_spatialdata did (checked)
cli_checked(exists, checked, format) ==
    IF ~exists
    THEN [exit_code |-> 1, output |-> NoOutput, result |-> <<>>, uncaught |-> <<>>]
    ELSE IF Len(checked.raised) > 0
    THEN [exit_code |-> 1, output |-> NoOutput, result |-> <<>>, uncaught |-> <<>>]
    ELSE cli_report(checked.value, format)

\* cli main, lines 43-140: [exit_code, output, result, uncaught]
cli_main(exists, sdata, elements, format, seed) ==
    cli_checked(exists, check_spatialdata(sdata, elements, seed), format)

(***************************************************************************)
(* Calls of single functions (the checker's, the command line's main and   *)
(* validate_with_version): the arguments are drawn from bounded sets, one  *)
(* action applies the called function.                                     *)
(***************************************************************************)
Array(meta, shape, chunked, chunks, fail, msg) ==
    [meta |-> meta, shape |-> shape, chunked |-> chunked, chunks |-> chunks,
     fail |-> fail, msg |-> msg]

\* what the store does on reads: which chunks fail, and with which message
Stores ==
    {<<"none", MsgOther>>, <<"first", MsgBlosc>>, <<"last", MsgOther>>,
     <<"odd", MsgDecompression>>} \cup ({"all"} \X Messages)

\* shape and chunk shape of the chunked arrays
Grids ==
    {<< <<>>, <<>> >>, << <<100, 100>>, <<10, 10>> >>}
        \cup {<< <<a>>, <<c>> >> : a \in 0..MaxDim, c \in 0..MaxChunk}
        \cup {<< <<a, b>>, <<c, d>> >> :
                 a \in 0..MaxDim, b \in 0..MaxDim, c \in 1..MaxChunk, d \in 1..MaxChunk}

Shapes == {g[1] : g \in Grids}

\* shapes of the unchunked arrays: those above and some of more dimensions
UnchunkedShapes == Shapes \cup {<<3, 12, 11>>, <<2, 3, 4>>, <<1, 1, 1, 12>>}

ZarrArrays ==
    {Array("ok", g[1], TRUE, g[2], st[1], st[2]) : g \in Grids, st \in Stores}
        \cup {Array("ok", sh, FALSE, <<>>, st[1], st[2]) :
                 sh \in UnchunkedShapes, st \in Stores}
        \cup {Array(m, <<>>, FALSE, <<>>, "none", MsgOther) :
                 m \in {"shape_raises", "chunks_raises"}}

Limits == {NoLimit} \cup (0..MaxLimit) \cup {SampleBudget, SampleBudget + 1}

Seeds == (0..MaxSeed) \X (0..MaxSeed)

\* whether check_zarr_array consults the random generator for this call
UsesRandom(array, sample_chunks) ==
    /\ array.meta = "ok" /\ array.chunked
    /\ \A d \in 1..Len(array.chunks) : array.chunks[d] > 0
    /\ sample_chunks
    /\ Len(all_chunk_coords(array.shape, array.chunks)) > SampleBudget

ZarrCall(a, sc, m, ap, sd) ==
    [fn |-> "check_zarr_array", array |-> a, sample_chunks |-> sc,
     max_chunks_to_check |-> m, array_path |-> ap, seed |-> sd]

InitZarrCall ==
    \E a \in ZarrArrays, sc \in BOOLEAN, m \in Limits, ap \in {NoPath, <<"arr">>} :
        \E sd \in (IF UsesRandom(a, sc) THEN Seeds ELSE {<<0, 0>>}) :
            call = ZarrCall(a, sc, m, ap, sd)

\* an array that stands where none is looked at
NoArray == Array("ok", <<>>, FALSE, <<>>, "none", MsgOther)

\* the zarr arrays behind raster elements: a sound one, one whose odd chunks
\* fail to decompress, one whose metadata cannot be read
LevelArrays ==
    {Array("ok", <<3, 3>>, TRUE, <<2, 2>>, "none", MsgOther),
     Array("ok", <<3, 3>>, TRUE, <<2, 2>>, "odd", MsgDecompression),
     Array("shape_raises", <<>>, FALSE, <<>>, "none", MsgOther)}

Level(kind, array, fails, msg) ==
    [named |-> FALSE, name |-> "", kind |-> kind, array |-> array,
     fails |-> fails, msg |-> msg]

Levels ==
    {Level("zarr", a, FALSE, MsgOther) : a \in LevelArrays}
        \cup {Level("lazy", NoArray, FALSE, MsgOther)}
        \cup {Level("lazy", NoArray, TRUE, m) : m \in Messages}
        \cup {Level("broken", NoArray, TRUE, MsgOther)}

\* the keys data.items() gives the levels, by position
LevelNames == <<"s0", "s1", "s2", "s3", "s4", "s5">>

LevelLists == UNION {[1..n -> Levels] : n \in 1..MaxLevels}

\* the levels as data.items() lists them: pairs of key and level
named(levels) ==
    [i \in 1..Len(levels) |-> [levels[i] EXCEPT !.named = TRUE, !.name = LevelNames[i]]]

Data(access, listing, levels, kind, array, fails, msg) ==
    [access |-> access, listing |-> listing, levels |-> levels, kind |-> kind,
     array |-> array, fails |-> fails, msg |-> msg]

NoData == Data("none", "ok", <<>>, "opaque", NoArray, FALSE, MsgOther)

\* data that lists scale levels
MultiscaleData ==
    {Data(ac, "ok", IF ac = "items" THEN named(ls) ELSE ls,
          "opaque", NoArray, FALSE, MsgOther) :
        ac \in {"values", "items", "iter"}, ls \in LevelLists}

\* data that lists none: no accessor, one that raises, or an empty listing
SingleData ==
    LET Bodies == {<<"zarr", a, FALSE, MsgOther>> : a \in LevelArrays}
                      \cup {<<"lazy", NoArray, FALSE, MsgOther>>}
                      \cup {<<"lazy", NoArray, TRUE, m>> : m \in Messages}
                      \cup {<<"opaque", NoArray, FALSE, MsgOther>>}
        Listings == {<<"none", "ok">>} \cup ({"values", "items", "iter"} \X {"ok", "raises"})
    IN {Data(l[1], l[2], <<>>, b[1], b[2], b[3], b[4]) : l \in Listings, b \in Bodies}

Element(data_attr, data, probe_fails, msg) ==
    [data_attr |-> data_attr, data |-> data, probe_fails |-> probe_fails, msg |-> msg]

RasterElements ==
    {Element("present", d, FALSE, MsgOther) : d \in MultiscaleData \cup SingleData}
        \cup {Element("absent", NoData, FALSE, MsgOther),
              Element("raises", NoData, FALSE, MsgOther)}

ProbeElements ==
    {Element("absent", NoData, FALSE, MsgOther)}
        \cup {Element("absent", NoData, TRUE, m) : m \in Messages}

ElementsOf(element_type) ==
    IF element_type \in {"images", "labels"} THEN RasterElements ELSE ProbeElements

ElementCall(e, et, en, sd) ==
    [fn |-> "check_spatialdata_element", element |-> e, element_type |-> et,
     element_name |-> en, seed |-> sd]

InitElementCall ==
    \E et \in Range(ElementTypes) \cup {"other"} :
        \E e \in ElementsOf(et) :
            call = ElementCall(e, et, <<"elem">>, <<0, 0>>)

\* a sound and a damaged element of each type
GoodElement(element_type) ==
    IF element_type \in {"images", "labels"}
    THEN Element("present",
                 Data("none", "ok", <<>>, "zarr",
                      Array("ok", <<3, 3>>, TRUE, <<2, 2>>, "none", MsgOther),
                      FALSE, MsgOther),
                 FALSE, MsgOther)
    ELSE Element("absent", NoData, FALSE, MsgOther)

BadElement(element_type) ==
    IF element_type \in {"images", "labels"}
    THEN Element("present",
                 Data("values", "ok", <<Level("lazy", NoArray, TRUE, MsgBlosc)>>,
                      "opaque", NoArray, FALSE, MsgOther),
                 FALSE, MsgOther)
    ELSE Element("absent", NoData, TRUE, MsgOther)

Content(attr, elems, items_raises) ==
    [attr |-> attr, elems |-> elems, items_raises |-> items_raises]

Absent == Content("absent", <<>>, FALSE)

\* what the attribute of one element type can hold
Contents(element_type) ==
    LET Some == {GoodElement(element_type), BadElement(element_type)}
    IN {Absent, Content("none", <<>>, FALSE), Content("raises", <<>>, FALSE),
        Content("single", <<GoodElement(element_type)>>, FALSE),
        Content("dict", <<GoodElement(element_type)>>, TRUE)}
           \cup {Content("dict", es, FALSE) :
                    es \in UNION {[1..n -> Some] : n \in 0..MaxElems}}

\* the attributes of a SpatialData object: at most two element types present
Attrs ==
    LET T == Range(ElementTypes)
    IN UNION {{[t \in T |-> IF t = t1 THEN c1 ELSE IF t = t2 THEN c2 ELSE Absent] :
                  c1 \in Contents(t1), c2 \in Contents(t2)} :
              <<t1, t2>> \in {<<"images", "tables">>, <<"labels", "points">>,
                              <<"shapes", "images">>}}

SData(given, load, attrs) == [given |-> given, load |-> load, attrs |-> attrs]

TypeLists ==
    {<<>>, << <<"images">> >>, << <<"tables", "images">> >>,
     << <<"points", "other">> >>, << <<>> >>}

SpatialdataCall(sdata, ets, sd) ==
    [fn |-> "check_spatialdata", sdata |-> sdata, element_types |-> ets, seed |-> sd]

InitSpatialdataCall ==
    \/ \E a \in Attrs, g \in {"path", "object"}, ets \in TypeLists :
           call = SpatialdataCall(SData(g, "ok", a), ets, <<0, 0>>)
    \/ \E a \in Attrs :
           call = SpatialdataCall(SData("path", "fails", a), <<>>, <<0, 0>>)

\* --elements: absent, or one or more of the five kinds (line 73)
CliElements == {<<>>, << <<"images">> >>, << <<"tables", "images">> >>}

CliCall(exists, sdata, elements, format, sd) ==
    [fn |-> "cli_main", exists |-> exists, sdata |-> sdata, elements |-> elements,
     format |-> format, seed |-> sd]

InitCliCall ==
    \/ \E a \in Attrs, els \in CliElements, f \in {"text", "json"} :
           call = CliCall(TRUE, SData("path", "ok", a), els, f, <<0, 0>>)
    \/ \E f \in {"text", "json"}, ex \in BOOLEAN :
           call = CliCall(ex, SData("path", "fails", [t \in Range(ElementTypes) |-> Absent]),
                          <<>>, f, <<0, 0>>)

ValidateCall(dataset, version, p) ==
    [fn |-> "validate_with_version", dataset |-> dataset, version |-> version, proc |-> p]

InitValidateCall ==
    \E i \in 1..Len(DATASETS), vs \in VersionChoices, p \in ProcOutcomes :
        \E v \in Range(vs) :
            call = ValidateCall(DATASETS[i], v, p)

InitChecker ==
    /\ pc = "idle"
    /\ datasets = <<>>
    /\ versions = <<>>
    /\ no_parallel = TRUE
    /\ workers = 1
    /\ setup_idx = 1
    /\ next_task = 1
    /\ running = {}
    /\ proc = <<>>
    /\ outcome = <<>>
    /\ results = <<>>
    /\ waiting = <<>>
    /\ exit_status = -1
    /\ \/ InitZarrCall \/ InitElementCall \/ InitSpatialdataCall \/ InitCliCall
       \/ InitValidateCall
    /\ ret = NoResult

\* what a call of check_zarr_array leaves: the ElementResult it returns
\* and, of its locals, the reads attempted, all_chunk_coords, the selection
\* of lines 145-159 and chunks_to_check
zarr_return(scan, array_path) ==
    [value |-> zarr_result(scan, array_path),
     reads |-> scan.reads,
     all_chunk_coords |-> scan.all_chunk_coords,
     selected |-> scan.selected,
     chunks_to_check |-> scan.chunks_to_check]

\* what a call of check_spatialdata_element leaves: the ElementResult it
\* returns, the arrays it probed and the exception its outer except caught
element_return(scan, element_type, element_name) ==
    [value |-> element_result(scan, element_type, element_name),
     probes |-> scan.probes,
     raised |-> scan.raised]

CallCheckZarrArray ==
    /\ call.fn = "check_zarr_array"
    /\ ret = NoResult
    /\ ret' = zarr_return(zarr_scan(call.array, call.sample_chunks,
                                    call.max_chunks_to_check, call.array_path,
                                    call.seed),
                          call.array_path)
    /\ UNCHANGED <<call, pc, datasets, versions, no_parallel, workers, setup_idx,
                   next_task, running, proc, outcome, results, waiting, exit_status>>

CallCheckSpatialdataElement ==
    /\ call.fn = "check_spatialdata_element"
    /\ ret = NoResult
    /\ ret' = element_return(element_scan(call.element, call.element_type,
                                          call.element_name, call.seed),
                             call.element_type, call.element_name)
    /\ UNCHANGED <<call, pc, datasets, versions, no_parallel, workers, setup_idx,
                   next_task, running, proc, outcome, results, waiting, exit_status>>

CallCheckSpatialdata ==
    /\ call.fn = "check_spatialdata"
    /\ ret = NoResult
    /\ ret' = check_spatialdata(call.sdata, call.element_types, call.seed)
    /\ UNCHANGED <<call, pc, datasets, versions, no_parallel, workers, setup_idx,
                   next_task, running, proc, outcome, results, waiting, exit_status>>

CallCliMain ==
    /\ call.fn = "cli_main"
    /\ ret = NoResult
    /\ ret' = cli_main(call.exists, call.sdata, call.elements, call.format, call.seed)
    /\ UNCHANGED <<call, pc, datasets, versions, no_parallel, workers, setup_idx,
                   next_task, running, proc, outcome, results, waiting, exit_status>>

CallValidateWithVersion ==
    /\ call.fn = "validate_with_version"
    /\ ret = NoResult
    /\ ret' = [value |-> validate_with_version(call.dataset, call.version, call.proc)]
    /\ UNCHANGED <<call, pc, datasets, versions, no_parallel, workers, setup_idx,
                   next_task, running, proc, outcome, results, waiting, exit_status>>

NextChecker ==
    \/ CallCheckZarrArray
    \/ CallCheckSpatialdataElement
    \/ CallCheckSpatialdata
    \/ CallCliMain
    \/ CallValidateWithVersion

SpecChecker == InitChecker /\ [][NextChecker]_vars

\* The run phase with the fairness the operating system gives: a started
\* subprocess ends or is killed at its timeout, an idle worker takes the next
\* task, the main loop collects a result that is ready.
FairSpec ==
    /\ Spec
    /\ WF_vars(SeqStart) /\ WF_vars(SeqFinish)
    /\ WF_vars(PoolStart) /\ WF_vars(PoolFinish) /\ WF_vars(PoolYield)
    /\ WF_vars(Report)

(***************************************************************************)
(* Claims about validate_datasets.py                                       *)
(***************************************************************************)
TaskId(t) == <<validation_tasks[t].dataset.name, validation_tasks[t].version>>
ResultId(r) == <<r.dataset_name, r.spatialdata_version>>
Terminal(t) == outcome[t] # NoResult
AllFinished == pc \in {"run", "done"} /\ next_task > total /\ running = {}
AllCollected == AllFinished /\ waiting = <<>>
\* the position of task t's outcome in results, 0 when it is not there
PosOf(t) ==
    IF \E i \in 1..Len(results) : ResultId(results[i]) = TaskId(t)
    THEN CHOOSE i \in 1..Len(results) : ResultId(results[i]) = TaskId(t)
    ELSE 0

\* C1: the collected results hold exactly one ValidationResult per submitted
\* task: every result belongs to a submitted task, no task identity occurs
\* twice, and once every task has finished and been collected each task has
\* its outcome in results.
C1_OutcomeBijection ==
    /\ \A i \in 1..Len(results) : \E t \in 1..total : ResultId(results[i]) = TaskId(t)
    /\ \A i, j \in 1..Len(results) : i # j => ResultId(results[i]) # ResultId(results[j])
    /\ AllCollected =>
          /\ Len(results) = total
          /\ \A t \in 1..total : \E i \in 1..Len(results) : ResultId(results[i]) = TaskId(t)
    /\ (pc = "done" /\ exit_status = 0) => AllCollected

C1_Witness ==
    /\ pc = "done" /\ exit_status = 0 /\ ~no_parallel /\ total = 4
    /\ proc[1] = ProcTimeout /\ proc[2] = ProcMalformed
    /\ proc[3] = ProcLoadFail /\ proc[4] = ProcOk

\* C2: with 4 workers, when every task succeeds except task j whose probe
\* throws, there are exactly N outcomes, task j's has success = FALSE and all
\* the others' have success = TRUE.
OneThrows(j) ==
    /\ proc[j] = ProcLoadFail
    /\ \A k \in 1..total : k # j => proc[k] = ProcOk

C2_OneFailureIsolated ==
    (AllCollected /\ ~no_parallel /\ workers = 4) =>
        \A j \in 1..total :
            OneThrows(j) =>
                /\ Len(results) = total
                /\ PosOf(j) # 0 /\ ~results[PosOf(j)].success
                /\ \A k \in 1..total :
                      k # j => (PosOf(k) # 0 /\ results[PosOf(k)].success)

C2_Witness ==
    /\ pc = "done" /\ ~no_parallel /\ workers = 4 /\ total = 4
    /\ OneThrows(2)

\* C3: a task whose subprocess runs past the timeout gets an outcome with
\* success = FALSE and error type TimeoutError, and once a task has timed out
\* every task of the run is eventually finished and collected.
TimedOut(t) == proc[t] # NoResult /\ proc[t].kind = "timeout"

C3_TimeoutOutcome ==
    \A t \in 1..total :
        TimedOut(t) => (~outcome[t].success /\ outcome[t].error_type = "TimeoutError")

C3_TimeoutDoesNotStarve ==
    /\ []C3_TimeoutOutcome
    /\ (\E t \in 1..total : TimedOut(t)) ~> (AllCollected /\ Len(results) = total)

C3_Witness ==
    /\ ~no_parallel /\ workers = 1 /\ total >= 3
    /\ TimedOut(1) /\ Len(results) = total
    /\ results[1].error_type = "TimeoutError" /\ results[2].success

\* C4: with more than one worker, results are collected in completion order:
\* each outcome appended to results is that of the task that finished earliest
\* among the finished tasks not collected yet.
C4_CompletionOrder ==
    [][(~no_parallel /\ workers > 1 /\ Len(results') = Len(results) + 1) =>
          (waiting # <<>> /\
           ResultId(results'[Len(results')]) = TaskId(Head(waiting)))]_vars

\* C5: with a single worker (sequential mode or workers = 1) the i-th
\* collected outcome belongs to the i-th submitted task.
C5_SubmissionOrder ==
    (no_parallel \/ workers = 1) =>
        \A i \in 1..Len(results) : ResultId(results[i]) = TaskId(i)

C5_Witness ==
    /\ ~no_parallel /\ workers = 1 /\ total >= 3 /\ Len(results) = total
    /\ ~results[1].success /\ results[total].success

(***************************************************************************)
(* Claims about checker.py                                                 *)
(***************************************************************************)
Returned == ret # NoResult
ZarrCalled == call.fn = "check_zarr_array" /\ Returned
\* the array's metadata is readable, it is chunked, every chunk size is positive
GridOk(array) ==
    /\ array.meta = "ok" /\ array.chunked
    /\ \A d \in 1..Len(array.chunks) : array.chunks[d] > 0
ReadCoords == [i \in 1..Len(ret.reads) |-> ret.reads[i].coord]
NoDuplicates(q) == \A i, j \in 1..Len(q) : i # j => q[i] # q[j]
\* ceil(a / b) for b > 0
Ceil(a, b) == CHOOSE k \in 0..a : k * b >= a /\ (k = 0 \/ (k - 1) * b < a)
RECURSIVE ProdCeil(_, _)
ProdCeil(S, C) ==
    IF Len(S) = 0 THEN 1 ELSE Ceil(Head(S), Head(C)) * ProdCeil(Tail(S), Tail(C))
\* the Cartesian product of range(ceil(S[d] / C[d])) over the dimensions d
CartesianRanges(S, C) ==
    LET n == [d \in 1..Len(S) |-> Ceil(S[d], C[d])]
    IN {c \in [1..Len(S) -> 0..(MaxOfSeq(n) - 1)] : \A d \in 1..Len(S) : c[d] < n[d]}
\* the number of chunk reads the caller allows: 10 when sampling, cut by
\* max_chunks_to_check when it is given
EffectiveBudget(m) == IF m = NoLimit THEN SampleBudget ELSE Min(SampleBudget, m)

ElementResultReturned ==
    call.fn \in {"check_zarr_array", "check_spatialdata_element"} /\ Returned
IntegrityResultReturned ==
    call.fn = "check_spatialdata" /\ Returned /\ ret.raised = <<>>

\* C6: every ElementResult check_zarr_array or check_spatialdata_element
\* returns has chunks_checked >= len(errors), whatever the element kind and
\* whatever the store does, stores whose shape or chunk metadata cannot be
\* read and elements whose accessors throw included.
C6_CheckedAtLeastErrors ==
    ElementResultReturned => ret.value.chunks_checked >= Len(ret.value.errors)

\* C7: is_valid is derived: an ElementResult of check_zarr_array or of
\* check_spatialdata_element is valid exactly when its errors are empty; an
\* IntegrityResult of check_spatialdata, that of a failed load included, is
\* valid exactly when its structural errors are empty and every element
\* result in it is valid.
C7_IsValidDerived ==
    /\ ElementResultReturned => (ret.value.is_valid <=> Len(ret.value.errors) = 0)
    /\ IntegrityResultReturned =>
           /\ ret.value.is_valid <=>
                  /\ Len(ret.value.errors) = 0
                  /\ \A k \in 1..Len(ret.value.elements) : ret.value.elements[k].is_valid
           /\ \A k \in 1..Len(ret.value.elements) :
                  ret.value.elements[k].is_valid <=> Len(ret.value.elements[k].errors) = 0
\* a store with a sound first and a damaged second image: no structural
\* error, and the damaged element alone makes the whole result invalid
C7_Witness ==
    /\ IntegrityResultReturned
    /\ Len(ret.value.errors) = 0
    /\ Len(ret.value.elements) = 2
    /\ ret.value.elements[1].is_valid
    /\ ~ret.value.elements[2].is_valid
    /\ ~ret.value.is_valid

\* C8 (as stated): sampling a set of n > 10 coordinates includes the first and
\* the last coordinate, returns exactly 10 coordinates without duplicates, all
\* of the full set, and exactly these are read; so the [100,100] / [10,10]
\* array gets exactly 10 reads with (0,0) and (9,9) among them.
C8_SamplingAsStated ==
    (ZarrCalled /\ GridOk(call.array) /\ call.sample_chunks
        /\ Len(ret.all_chunk_coords) > SampleBudget) =>
        LET all == ret.all_chunk_coords
            got == ReadCoords
        IN /\ Len(got) = SampleBudget
           /\ all[1] \in Range(got)
           /\ all[Len(all)] \in Range(got)
           /\ NoDuplicates(got)
           /\ Range(got) \subseteq Range(all)
           /\ ret.value.chunks_checked = SampleBudget

\* C8 (amended): sampling a set of n > 10 coordinates reads exactly
\* min(10, max_chunks_to_check) coordinates (10 when it is None), without
\* duplicates, all of the full set, the first coordinate among them when at
\* least one is read and the last when at least two are; the [100,100] /
\* [10,10] array gets 10 reads with (0,0) and (9,9) exactly when
\* max_chunks_to_check is None or at least 10.
C8_SamplingTruncated ==
    (ZarrCalled /\ GridOk(call.array) /\ call.sample_chunks
        /\ Len(ret.all_chunk_coords) > SampleBudget) =>
        LET all == ret.all_chunk_coords
            got == ReadCoords
            b == EffectiveBudget(call.max_chunks_to_check)
        IN /\ Len(got) = b
           /\ ret.value.chunks_checked = b
           /\ b >= 1 => got[1] = all[1]
           /\ b >= 2 => got[2] = all[Len(all)]
           /\ NoDuplicates(got)
           /\ Range(got) \subseteq Range(all)
           /\ got = ret.chunks_to_check
           /\ (call.array.shape = <<100, 100>> /\ call.array.chunks = <<10, 10>>) =>
                 /\ all[1] = <<0, 0>> /\ all[Len(all)] = <<9, 9>>
                 /\ (Len(got) = SampleBudget) <=>
                       (call.max_chunks_to_check = NoLimit
                            \/ call.max_chunks_to_check >= SampleBudget)

C8_Witness ==
    /\ ZarrCalled /\ call.sample_chunks
    /\ call.array.shape = <<100, 100>> /\ call.array.chunks = <<10, 10>>
    /\ call.max_chunks_to_check = NoLimit
    /\ Len(ret.reads) = 10 /\ ret.value.chunks_checked = 10
    /\ <<0, 0>> \in Range(ReadCoords) /\ <<9, 9>> \in Range(ReadCoords)
    /\ \E i \in 3..10 : ReadCoords[i] \notin {<<0, 1>>, <<9, 8>>}

C10_ChunkCount ==
    (ZarrCalled /\ GridOk(call.array)) =>
        LET S == call.array.shape
            C == call.array.chunks
        IN /\ Len(ret.all_chunk_coords) = ProdCeil(S, C)
           /\ Range(ret.all_chunk_coords) = CartesianRanges(S, C)
           /\ NoDuplicates(ret.all_chunk_coords)

C10_Witness ==
    /\ ZarrCalled /\ GridOk(call.array)
    /\ call.array.shape = <<3, 4>> /\ call.array.chunks = <<2, 1>>
    /\ Len(ret.all_chunk_coords) = 8
    /\ ret.all_chunk_coords[8] = <<1, 3>>

\* whether a message names blosc or decompression, in any letter case
NamesDecompression(message) ==
    Contains(lower(message), blosc) \/ Contains(lower(message), decompression)

\* C11: on every read path (chunked array, unchunked array, scale level
\* fallback, single array fallback) an error whose message contains "blosc"
\* or "decompression", in any letter case, is recorded with error_type
\* BloscDecompressionError, and an error with an unrelated message keeps its
\* generic type.
C11_ClassifiedOnEveryPath ==
    ElementResultReturned =>
        \A k \in 1..Len(ret.value.errors) :
            (ret.value.errors[k].error_type = "BloscDecompressionError")
                <=> NamesDecompression(ret.value.errors[k].error_message)

\* a store that serves every read of the array (positive chunk sizes)
ReadsSucceed(array) ==
    /\ array.meta = "ok" /\ array.fail = "none"
    /\ array.chunked => \A d \in 1..Len(array.chunks) : array.chunks[d] > 0
\* an element all of whose accessors and reads succeed
ElementReadsSucceed(element, element_type) ==
    IF element_type \in {"images", "labels"}
    THEN /\ element.data_attr # "raises"
         /\ element.data_attr = "present" =>
                LET levels == scale_levels(element.data)
                IN IF Len(levels) > 0
                   THEN \A i \in 1..Len(levels) :
                            \/ levels[i].kind = "zarr" /\ ReadsSucceed(levels[i].array)
                            \/ levels[i].kind = "lazy" /\ ~levels[i].fails
                   ELSE \/ element.data.kind = "zarr" /\ ReadsSucceed(element.data.array)
                        \/ element.data.kind = "lazy" /\ ~element.data.fails
                        \/ element.data.kind = "opaque"
    ELSE ~element.probe_fails
AllReadsSucceed ==
    \/ call.fn = "check_zarr_array" /\ ReadsSucceed(call.array)
    \/ call.fn = "check_spatialdata_element"
           /\ ElementReadsSucceed(call.element, call.element_type)

json_loads(record) ==
    [path |-> IF record.path = JsonNull THEN NoPath ELSE record.path.value,
     is_valid |-> record.is_valid = "true",
     elements |-> record.elements,
     errors |-> record.errors]
\* the fields the round trip is to keep
SameReport(result, parsed) ==
    /\ parsed.is_valid = result.is_valid
    /\ Len(parsed.elements) = Len(result.elements)
    /\ \A k \in 1..Len(result.elements) :
           /\ parsed.elements[k].is_valid = result.elements[k].is_valid
           /\ parsed.elements[k].chunks_checked = result.elements[k].chunks_checked
           /\ parsed.elements[k].errors = result.elements[k].errors
CliReported == call.fn = "cli_main" /\ Returned /\ ret.result # <<>>

\* C13: every IntegrityResult, with zero or more ElementResults, is
\* serialized by format_json_result to a record whose re-parsing gives the
\* same is_valid, the same chunks_checked per element and the same errors
\* per element.
C13_JsonRoundTrip ==
    (CliReported /\ call.format = "json") =>
        /\ ret.uncaught = <<>>
        /\ ret.output.kind = "json"
        /\ SameReport(ret.result[1], json_loads(ret.output.record))

\* C14: the command-line wrappers exit with a non-zero status when a result
\* is invalid; for the dataset validation script: when main is done and at
\* least one ValidationResult has success = false, the exit status is not 0.
C14_NonZeroOnFailure ==
    (pc = "done" /\ \E i \in 1..Len(results) : ~results[i].success) =>
        exit_status # 0

SpatialdataCalled == call.fn = "check_spatialdata" /\ Returned
\* the element types a call of check_spatialdata goes through
RequestedTypes ==
    IF call.element_types = <<>> THEN Range(ElementTypes) ELSE Range(call.element_types[1])
\* getting or iterating the mapping of a requested element type raises
EnumerationFails ==
    /\ ~(call.sdata.given = "path" /\ call.sdata.load = "fails")
    /\ \E t \in RequestedTypes \cap DOMAIN call.sdata.attrs :
           \/ call.sdata.attrs[t].attr = "raises"
           \/ call.sdata.attrs[t].items_raises

\* C15: an exception raised while a kind's mapping is enumerated or one of
\* its named elements is loaded is caught inside check_spatialdata: the call
\* still returns an IntegrityResult, the failure is in its structural errors
\* and the other elements' results are in it.
C15_EnumerationFailuresCaught ==
    SpatialdataCalled =>
        /\ ret.raised = <<>>
        /\ EnumerationFails => Len(ret.value.errors) > 0

LoadFailed == call.sdata.given = "path" /\ call.sdata.load = "fails"

\* C16: when check_spatialdata is given a location and loading it fails, it
\* returns at once: the IntegrityResult is invalid, has exactly one
\* structural error (the load failure) and no elements, whatever elements the
\* store holds.
C16_LoadFailureShortCircuits ==
    (SpatialdataCalled /\ LoadFailed) =>
        /\ ret.raised = <<>>
        /\ ~ret.value.is_valid
        /\ Len(ret.value.errors) = 1
        /\ ret.value.errors[1][1] = "Failed to load SpatialData object"
        /\ ret.value.elements = <<>>
        /\ ret.value.path = <<"store.zarr">>
\* the store that fails to load holds two images, none is scanned
C16_Witness ==
    /\ SpatialdataCalled /\ LoadFailed
    /\ call.sdata.attrs["images"].attr = "dict"
    /\ Len(call.sdata.attrs["images"].elems) = 2
    /\ ret.value.elements = <<>>
    /\ Len(ret.value.errors) = 1

ElementCalled == call.fn = "check_spatialdata_element" /\ Returned
\* an images or labels element whose introspection fails and none of whose
\* reads fails: the data accessor is missing or throws, a scale level cannot
\* be looked at, or the data has no shape
IntrospectionFails ==
    /\ call.element_type \in {"images", "labels"}
    /\ \/ call.element.data_attr \in {"absent", "raises"}
       \/ /\ call.element.data_attr = "present"
          /\ LET levels == scale_levels(call.element.data)
             IN IF Len(levels) > 0
                THEN /\ \E i \in 1..Len(levels) : levels[i].kind = "broken"
                     /\ \A i \in 1..Len(levels) :
                            \/ levels[i].kind = "broken"
                            \/ levels[i].kind = "zarr" /\ ReadsSucceed(levels[i].array)
                            \/ levels[i].kind = "lazy" /\ ~levels[i].fails
                ELSE call.element.data.kind = "opaque"

\* C17: an exception or a missing accessor met while the element is
\* introspected, before a probe read is attempted, is recorded as a warning
\* string on the ElementResult and not as a ChunkError: the errors stay
\* empty.
C17_IntrospectionIsWarning ==
    (ElementCalled /\ IntrospectionFails) =>
        /\ ret.value.warning # None
        /\ Len(ret.value.errors) = 0

ValidateCalled == call.fn = "validate_with_version" /\ Returned
\* the subprocess ended and its output cannot be parsed into a result
\* record: nothing printed, a last line that is not JSON, or JSON that is
\* not a record
MalformedOutput ==
    /\ call.proc.kind = "completed"
    /\ call.proc.out.json \in {"invalid", "scalar"}

\* C18: a task whose reported result is malformed (empty output, a last line
\* that is not JSON, JSON that is not a record) has an outcome with
\* success = false and error kind ParseError, which no load failure and no
\* timeout has.
C18_MalformedIsParseError ==
    ValidateCalled =>
        /\ MalformedOutput =>
               ~ret.value.success /\ ret.value.error_type = "ParseError"
        /\ ~MalformedOutput => ret.value.error_type # "ParseError"

\* C19: the outcome of a timed-out task has no elements and no
\* coordinate_systems, whatever the task had printed before the timeout.
C19_TimeoutHasNoSummary ==
    (ValidateCalled /\ call.proc.kind = "timeout") =>
        /\ ~ret.value.success
        /\ ret.value.error_type = "TimeoutError"
        /\ ret.value.elements = None
        /\ ret.value.coordinate_systems = None
\* the task had printed a complete result before it was killed
C19_Witness ==
    /\ ValidateCalled /\ call.proc.kind = "timeout"
    /\ call.proc.out.json = "object"
    /\ call.proc.out.elements # None
    /\ ret.value.elements = None

\* the selected coordinates whose read the store fails, in selection order
FailedCoords == SelectSeq(ret.chunks_to_check, LAMBDA c : ReadFails(call.array, c))

\* C20: on a chunked array with readable metadata a failed chunk read does
\* not end the loop: every selected coordinate is read exactly once, in
\* selection order, chunks_checked is the number of selected coordinates, and
\* errors has one ChunkError per failed coordinate, with that coordinate, in
\* the order of the attempts.
C20_FailureDoesNotAbort ==
    (ZarrCalled /\ GridOk(call.array)) =>
        /\ ReadCoords = ret.chunks_to_check
        /\ NoDuplicates(ReadCoords)
        /\ ret.value.chunks_checked = Len(ret.chunks_to_check)
        /\ Len(ret.value.errors) = Len(FailedCoords)
        /\ \A k \in 1..Len(FailedCoords) :
               /\ ret.value.errors[k].chunk_index = FailedCoords[k]
               /\ ret.value.errors[k].error_message = call.array.msg
               /\ ret.value.errors[k].array_path = call.array_path
\* four chunks, the second and third fail, the fourth is still read
C20_Witness ==
    /\ ZarrCalled /\ GridOk(call.array)
    /\ call.array.shape = <<3, 3>> /\ call.array.chunks = <<2, 2>>
    /\ call.array.fail = "odd"
    /\ call.max_chunks_to_check = NoLimit
    /\ ReadCoords = << <<0, 0>>, <<0, 1>>, <<1, 0>>, <<1, 1>> >>
    /\ ret.value.chunks_checked = 4
    /\ Len(ret.value.errors) = 2
    /\ ret.value.errors[1].chunk_index = <<0, 1>>
    /\ ret.value.errors[2].chunk_index = <<1, 0>>

\* a call of check_spatialdata_element on an images or labels element whose
\* data lists scale levels
MultiscaleCalled ==
    /\ ElementCalled
    /\ call.element_type \in {"images", "labels"}
    /\ call.element.data_attr = "present"
    /\ Len(scale_levels(call.element.data)) > 0
\* "<element_name>/<level-name>" of the i-th level
LevelPath(i) ==
    call.element_name \o <<scale_name_of(scale_levels(call.element.data)[i], i - 1)>>

\* C21: for a multiscale images or labels element every level is probed
\* exactly once, in level order, whatever happened at the levels before it;
\* each level adds at least one to chunks_checked; and every ChunkError of
\* the result carries the path "<element_name>/<level-name>" of a level.
C21_LevelsIndependent ==
    MultiscaleCalled =>
        LET levels == scale_levels(call.element.data)
        IN /\ Len(ret.probes) = Len(levels)
           /\ \A i \in 1..Len(ret.probes) :
                  /\ ret.probes[i].path = LevelPath(i)
                  /\ ret.probes[i].checked >= 1
           /\ \A k \in 1..Len(ret.value.errors) :
                  \E i \in 1..Len(levels) :
                      ret.value.errors[k].array_path = LevelPath(i)

\* a call of check_zarr_array on an array with readable metadata and
\* chunks = None
UnchunkedCalled == ZarrCalled /\ call.array.meta = "ok" /\ ~call.array.chunked
\* the probe of an unchunked array reads [0, min(10, S[d])) along each of the
\* dimensions 1..n
ProbeReads(n) ==
    /\ Len(ret.reads) = 1
    /\ ret.reads[1].slices =
           [d \in 1..n |-> [start |-> 0, end |-> Min(ProbeExtent, call.array.shape[d])]]
\* one attempt counted; no error when the probe read succeeds, one when it fails
ProbeCounted ==
    LET failed == ReadFails(call.array, [d \in 1..Len(call.array.shape) |-> 0])
    IN /\ ret.value.chunks_checked = 1
       /\ Len(ret.value.errors) = (IF failed THEN 1 ELSE 0)
       /\ ret.value.is_valid = ~failed

\* C22 (as stated): for an unchunked array check_zarr_array makes one probe
\* that reads the first min(10, dim) elements along each of the first two
\* dimensions, and the result has chunks_checked = 1, with no error when the
\* probe succeeds and exactly one when it fails.
C22_ProbeFirstTwoDims ==
    UnchunkedCalled =>
        /\ ProbeReads(Min(2, Len(call.array.shape)))
        /\ ProbeCounted

\* C22 (amended): for an unchunked array check_zarr_array makes one probe
\* that reads the first min(10, dim) elements along every dimension of the
\* array, and the result has chunks_checked = 1, with no error when the probe
\* succeeds and exactly one when it fails.
C22_ProbeEveryDim ==
    UnchunkedCalled =>
        /\ ProbeReads(Len(call.array.shape))
        /\ ProbeCounted
\* a three-dimensional array: the probe reads 3 x 10 x 10 elements and fails
C22_Witness ==
    /\ UnchunkedCalled
    /\ call.array.shape = <<3, 12, 11>>
    /\ call.array.fail = "all"
    /\ ret.reads[1].slices = <<[start |-> 0, end |-> 3], [start |-> 0, end |-> 10],
                               [start |-> 0, end |-> 10]>>
    /\ ret.value.chunks_checked = 1
    /\ Len(ret.value.errors) = 1

(***************************************************************************)
(* More claims about validate_datasets.py                                  *)
(***************************************************************************)
\* the state of task t: Pending until a loop or a worker enters
\* validate_with_version for it, Running until that returns, then the
\* terminal state its ValidationResult tells
TaskState(t) ==
    IF outcome[t] # NoResult
    THEN IF outcome[t].success THEN "Succeeded"
         ELSE IF outcome[t].error_type = "TimeoutError" THEN "TimedOut"
         ELSE "Failed"
    ELSE IF t \in running THEN "Running"
    ELSE "Pending"
TerminalStates == {"Succeeded", "Failed", "TimedOut"}
\* the moves of one task
TaskMoves ==
    {<<"Pending", "Running">>} \cup ({"Running"} \X TerminalStates)
\* a task is in one state only: started tasks are running or terminal, a
\* running task has no outcome, the others have not been touched
OneStatePerTask ==
    \A t \in 1..total :
        /\ (t \in running) => (outcome[t] = NoResult /\ t < next_task)
        /\ (outcome[t] # NoResult) => (t < next_task /\ proc[t] # NoResult)
        /\ (t < next_task) => (t \in running \/ outcome[t] # NoResult)
TaskStep ==
    \A t \in 1..total :
        \/ TaskState(t)' = TaskState(t)
        \/ <<TaskState(t), TaskState(t)'>> \in TaskMoves
\* a terminal task keeps its outcome and is not entered again
TerminalIsFinal ==
    \A t \in 1..total :
        outcome[t] # NoResult =>
            /\ outcome'[t] = outcome[t]
            /\ proc'[t] = proc[t]
            /\ t \notin running'

\* C23: each task follows Pending -> Running -> {Succeeded, Failed,
\* TimedOut}: it becomes terminal only from Running, is in one state at a
\* time, and once terminal keeps its outcome and never runs again.
C23_TaskStateMachine ==
    /\ []OneStatePerTask
    /\ [][TaskStep /\ TerminalIsFinal]_vars
\* a parallel run that ended with one task in each terminal state
C23_Witness ==
    /\ pc = "done" /\ ~no_parallel /\ workers = 2 /\ total >= 3
    /\ TaskState(1) = "TimedOut" /\ TaskState(2) = "Succeeded"
    /\ TaskState(3) = "Failed"

\* the outcome of task t carries t's own identity and tells what t's own
\* subprocess did
OwnOutcome(t) ==
    /\ outcome[t].dataset_name = validation_tasks[t].dataset.name
    /\ outcome[t].dataset_url = validation_tasks[t].dataset.url
    /\ outcome[t].spatialdata_version = validation_tasks[t].version
    /\ (outcome[t].error_type = "TimeoutError") <=> (proc[t].kind = "timeout")
    /\ outcome[t].success <=>
           (proc[t].kind = "completed" /\ proc[t].out.json = "object"
                /\ proc[t].out.success)

\* C24: under any interleaving of the workers every outcome carries the
\* dataset name, dataset URL and version of the task that produced it and
\* tells that task's own fault or timeout; every collected result is the
\* outcome of the one task with its identity, wherever it stands in results.
C24_NoMisattribution ==
    /\ \A t \in 1..total : outcome[t] # NoResult => OwnOutcome(t)
    /\ \A i \in 1..Len(results) :
           \E t \in 1..total :
               /\ results[i] = outcome[t]
               /\ \A u \in 1..total : ResultId(results[i]) = TaskId(u) => u = t
\* two workers: the second task succeeded first, then the first one timed out
C24_Witness ==
    /\ ~no_parallel /\ workers = 2 /\ total >= 2
    /\ waiting = <<2, 1>>
    /\ proc[1].kind = "timeout" /\ proc[2] = ProcOk
    /\ outcome[1].error_type = "TimeoutError" /\ outcome[2].success
    /\ OwnOutcome(1) /\ OwnOutcome(2)

\* the tasks that are Running, and those still Pending (queued)
RunningTasks == {t \in 1..total : TaskState(t) = "Running"}
PendingTasks == {t \in 1..total : TaskState(t) = "Pending"}
Saturated == Cardinality(RunningTasks) = workers

\* C25: during a parallel run at most `workers` tasks are Running; while
\* the pool is saturated no Pending task starts: a task starts only in a step
\* that begins with a free slot, so after a saturation only once a running
\* task has become terminal.
C25_BoundedConcurrency ==
    /\ [](~no_parallel => Cardinality(RunningTasks) <= workers)
    /\ [][~no_parallel =>
            /\ (RunningTasks' \ RunningTasks # {}) =>
                   Cardinality(RunningTasks) < workers
            /\ Saturated => PendingTasks' = PendingTasks]_vars
\* two workers, four tasks: the third task started after the first one ended,
\* the pool is full again and the fourth task waits
C25_Witness ==
    /\ pc = "run" /\ ~no_parallel /\ workers = 2 /\ total = 4
    /\ TaskState(1) \in TerminalStates
    /\ RunningTasks = {2, 3}
    /\ PendingTasks = {4}

(***************************************************************************)
(* More claims about checker.py                                            *)
(***************************************************************************)
\* the element types a call of check_spatialdata goes through, in order
RequestedList ==
    IF call.element_types = <<>> THEN ElementTypes ELSE call.element_types[1]
\* the elements the container holds of one kind, as (kind, name) pairs in
\* the iteration order of the mapping; a value that is no dict is one element
\* under the name of its kind; nothing when the kind is not exposed
Enumerated(element_type) ==
    IF element_type \notin DOMAIN call.sdata.attrs
    THEN <<>>
    ELSE LET c == call.sdata.attrs[element_type]
         IN IF c.attr = "dict"
            THEN [k \in 1..Len(c.elems) |-> <<element_type, <<ElemNames[k]>>>>]
            ELSE IF c.attr = "single"
            THEN << <<element_type, <<element_type>>>> >>
            ELSE <<>>
RECURSIVE EnumerationOrder(_)
EnumerationOrder(types) ==
    IF Len(types) = 0 THEN <<>>
    ELSE Enumerated(Head(types)) \o EnumerationOrder(Tail(types))
\* the (kind, name) pairs of the ElementResults returned, in order
Visited ==
    [k \in 1..Len(ret.value.elements) |->
        <<ret.value.elements[k].element_type, ret.value.elements[k].element_name>>]

RECURSIVE Volume(_)
Volume(slices) ==
    IF Len(slices) = 0 THEN 1
    ELSE (Head(slices).end - Head(slices).start) * Volume(Tail(slices))
RECURSIVE ProductOf(_)
ProductOf(q) == IF Len(q) = 0 THEN 1 ELSE Head(q) * ProductOf(Tail(q))
\* two boxes of slices share no element: their intervals are apart in some
\* dimension
Disjoint(a, b) ==
    \E d \in 1..Len(a) : a[d].end <= b[d].start \/ b[d].end <= a[d].start
ReadVolumes == [i \in 1..Len(ret.reads) |-> Volume(ret.reads[i].slices)]

\* C27: for shape S and positive chunk shape C the slice read for the chunk
\* coordinate c is, in each dimension i, [c[i]*C[i], min(c[i]*C[i]+C[i], S[i])):
\* its end is cut at S[i] on the last, partial chunk, it is not empty and it
\* lies inside [0, S[i]); the slices of distinct coordinates share no element,
\* and when every enumerated coordinate is read the slices cover the array
\* (being disjoint and inside it, they hold as many elements as the array).
C27_SlicesTileArray ==
    (ZarrCalled /\ GridOk(call.array)) =>
        LET S == call.array.shape
            C == call.array.chunks
        IN /\ \A k \in 1..Len(ret.reads) :
                  LET c == ret.reads[k].coord
                      sl == ret.reads[k].slices
                  IN /\ Len(sl) = Len(S)
                     /\ \A i \in 1..Len(S) :
                            /\ sl[i].start = c[i] * C[i]
                            /\ sl[i].end = Min(c[i] * C[i] + C[i], S[i])
                            /\ (c[i] * C[i] + C[i] > S[i]) => sl[i].end = S[i]
                            /\ sl[i].start < sl[i].end
                            /\ 0 <= sl[i].start /\ sl[i].end <= S[i]
           /\ \A j, k \in 1..Len(ret.reads) :
                  (ret.reads[j].coord # ret.reads[k].coord) =>
                      Disjoint(ret.reads[j].slices, ret.reads[k].slices)
           /\ (ReadCoords = ret.all_chunk_coords) =>
                  SumSeq(ReadVolumes) = ProductOf(S)
\* a 3 x 3 array in chunks of 2 x 2: four reads, the last one of one element
C27_Witness ==
    /\ ZarrCalled /\ GridOk(call.array)
    /\ call.array.shape = <<3, 3>> /\ call.array.chunks = <<2, 2>>
    /\ ~call.sample_chunks /\ call.max_chunks_to_check = NoLimit
    /\ Len(ret.reads) = 4
    /\ ret.reads[2].slices = <<[start |-> 0, end |-> 2], [start |-> 2, end |-> 3]>>
    /\ ret.reads[4].slices = <<[start |-> 2, end |-> 3], [start |-> 2, end |-> 3]>>

\* C28: on a chunked array, when max_chunks_to_check is a non-negative
\* integer m at most m chunk reads are attempted (chunks_checked <= m), and
\* when it is None and sample_chunks is False every chunk of the array is
\* attempted, once, in enumeration order.
C28_LimitAndExhaustive ==
    (ZarrCalled /\ call.array.meta = "ok" /\ call.array.chunked) =>
        /\ (call.max_chunks_to_check # NoLimit) =>
               /\ ret.value.chunks_checked <= call.max_chunks_to_check
               /\ Len(ret.reads) <= call.max_chunks_to_check
        /\ (call.max_chunks_to_check = NoLimit /\ ~call.sample_chunks
                /\ GridOk(call.array)) =>
               /\ ReadCoords = ret.all_chunk_coords
               /\ ret.value.chunks_checked = Len(ret.all_chunk_coords)
\* 100 chunks, sampling on, a limit of 3: three reads
C28_Witness ==
    /\ ZarrCalled /\ GridOk(call.array)
    /\ call.array.shape = <<100, 100>> /\ call.array.chunks = <<10, 10>>
    /\ call.sample_chunks /\ call.max_chunks_to_check = 3
    /\ Len(ret.all_chunk_coords) = 100
    /\ Len(ret.reads) = 3 /\ ret.value.chunks_checked = 3

\* the environments of all the requested versions have been set up
AllSetUp == setup_idx > Len(versions)
\* no task has been started and there is no outcome
NothingStarted ==
    /\ next_task = 1 /\ running = {} /\ results = <<>> /\ waiting = <<>>
    /\ \A t \in 1..total : outcome[t] = NoResult /\ proc[t] = NoResult

\* C29: in the main of validate_datasets.py no validation task starts before
\* the environment of every requested version has been set up; when the setup
\* of a version fails main ends with a non-zero exit status, no task started
\* and no outcome produced.
C29_SetupBeforeTasks ==
    /\ ~NothingStarted => (AllSetUp /\ pc \in {"run", "done"})
    /\ pc = "setup" => (NothingStarted /\ exit_status = -1)
    /\ (pc = "done" /\ ~AllSetUp) => (exit_status # 0 /\ NothingStarted)
    /\ pc = "run" => AllSetUp
\* two versions: the first environment was set up, the second failed
C29_Witness ==
    /\ pc = "done" /\ Len(versions) = 2 /\ total = 4
    /\ setup_idx = 2
    /\ exit_status = 1
    /\ NothingStarted

\* C30: every ValidationResult validate_with_version returns is consistent,
\* whatever the subprocess printed and however it ended: with success = true
\* error_type and error_message are absent, with success = false error_type
\* is present.
C30_ResultConsistent ==
    ValidateCalled =>
        /\ ret.value.success =>
               (ret.value.error_type = None /\ ret.value.error_message = None)
        /\ ~ret.value.success => ret.value.error_type # None

====
